---- MODULE Spec2Model ----
(***************************************************************************)
(* Model of st2common/runners/python_action_wrapper.py: the per-process    *)
(* Python action wrapper (parameter ingestion, action loading, invocation, *)
(* result normalisation and framed output) and the ActionService facade    *)
(* that is handed to the action instance.                                  *)
(***************************************************************************)
EXTENDS Integers, Sequences, FiniteSets, TLC

VARIABLES
    pc,                 \* position of the wrapper process in __main__ / run()
    args,               \* parsed command line: --parameters, --stdin-parameters,
                        \* --pack, --log-level
    stdin,              \* what the parent puts on the standard input stream
    polls,              \* number of select.select() calls on stdin
    waited,             \* seconds select.select() blocked waiting for stdin
    stdin_read,         \* whether sys.stdin.readline() was called
    parameters,         \* the dict `parameters` of __main__
    self_parameters,    \* PythonActionWrapper._parameters
    self_class_name,    \* PythonActionWrapper._class_name
    kwargs,             \* the keyword arguments action.run() was called with
    output,             \* the value action.run() returned
    action_status,      \* local of run()
    action_result,      \* local of run()
    action_output,      \* local of run(): the dict {'result': .., 'status': ..}
    print_output,       \* local of run(): the text written between the delimiters
    stdout,             \* what the wrapper wrote to sys.stdout, in order
    stderr,             \* what the wrapper wrote to sys.stderr, in order
    exit,               \* how the process ended
    action_service,     \* whether the ActionService of this run exists
    datastore_service,  \* ActionService._datastore_service
    constructed,        \* number of ActionDatastoreService(...) constructions
    calls,              \* number of facade method calls made by the action
    request,            \* the last facade call, as the action made it
    forwarded,          \* the last call, as the datastore service received it
    used                \* ids of the datastore service instances calls went to

harness_vars == <<pc, args, stdin, polls, waited, stdin_read, parameters, self_parameters,
                  self_class_name, kwargs, output, action_status, action_result,
                  action_output, print_output, stdout, stderr, exit>>

facade_vars == <<action_service, datastore_service, constructed, calls, request,
                 forwarded, used>>

vars == <<harness_vars, facade_vars>>

----------------------------------------------------------------------------
(* Bounds of the model.                                                     *)

\* parameter values are the integers 1 .. MaxValue
MaxValue == 2
\* an action makes at most MaxCalls calls on its ActionService
MaxCalls == 3

----------------------------------------------------------------------------
(* Python values.  Every value is a record [t, a, c]: its type name, its    *)
(* literal (for atoms) and its items (for containers).                      *)

PyNone == [t |-> "NoneType", a |-> "None", c |-> <<>>]
PyBool(b) == [t |-> "bool", a |-> IF b THEN "True" ELSE "False", c |-> <<>>]
PyInt(n) == [t |-> "int", a |-> ToString(n), c |-> <<>>]
PyStr(s) == [t |-> "str", a |-> s, c |-> <<>>]
PyTuple(items) == [t |-> "tuple", a |-> "", c |-> items]
PyList(items) == [t |-> "list", a |-> "", c |-> items]
\* an instance of a user class: not JSON serializable
PyObject == [t |-> "object", a |-> "<Result object>", c |-> <<>>]
\* a list that contains itself: l = []; l.append(l)
PyCyclicList == [t |-> "list", a |-> "cyclic", c |-> <<>>]
\* one key: value item of a dict
PyItem(k, v) == [t |-> "item", a |-> k, c |-> <<v>>]
PyDict(items) == [t |-> "dict", a |-> "", c |-> items]
\* a local that is not bound yet
Unbound == [t |-> "unbound", a |-> "", c |-> <<>>]

\* isinstance(v, bool): int is not a subclass of bool, so 0 and 1 are not bools
IsBool(v) == v.t = "bool"
\* isinstance(output, tuple) and len(output) == 2
IsPair(v) == v.t = "tuple" /\ Len(v.c) = 2

\* ', '.join(texts)
RECURSIVE Join(_)
Join(texts) ==
    IF Len(texts) = 0 THEN ""
    ELSE IF Len(texts) = 1 THEN texts[1]
    ELSE texts[1] \o ", " \o Join(Tail(texts))

\* repr(v)
RECURSIVE Repr(_)
Repr(v) ==
    CASE v.t = "str" -> "'" \o v.a \o "'"
      [] v.t = "tuple" ->
            IF Len(v.c) = 1 THEN "(" \o Repr(v.c[1]) \o ",)"
            ELSE "(" \o Join([i \in 1..Len(v.c) |-> Repr(v.c[i])]) \o ")"
      [] v.t = "list" ->
            IF v.a = "cyclic" THEN "[[...]]"
            ELSE "[" \o Join([i \in 1..Len(v.c) |-> Repr(v.c[i])]) \o "]"
      [] v.t = "item" -> "'" \o v.a \o "': " \o Repr(v.c[1])
      [] v.t = "dict" -> "{" \o Join([i \in 1..Len(v.c) |-> Repr(v.c[i])]) \o "}"
      [] OTHER -> v.a

\* str(v): differs from repr(v) on strings only
Str(v) == IF v.t = "str" THEN v.a ELSE Repr(v)

----------------------------------------------------------------------------
(* JSON documents.  A document is a record [j, a, c]: its JSON type, its    *)
(* literal and its elements or members.                                     *)

JNull == [j |-> "null", a |-> "null", c |-> <<>>]
JBool(s) == [j |-> "bool", a |-> s, c |-> <<>>]
JNumber(s) == [j |-> "number", a |-> s, c |-> <<>>]
JString(s) == [j |-> "string", a |-> s, c |-> <<>>]
JArray(elems) == [j |-> "array", a |-> "", c |-> elems]
JMember(k, d) == [j |-> "member", a |-> k, c |-> <<d>>]
JObject(members) == [j |-> "object", a |-> "", c |-> members]
\* a line that is not a JSON document
JInvalid == [j |-> "invalid", a |-> "", c |-> <<>>]

\* the exception json.dumps(v) raises, "" when it raises none: TypeError for a
\* value of a type the encoder does not know, ValueError for a circular reference
RECURSIVE DumpsError(_)
DumpsError(v) ==
    LET errs == [i \in 1..Len(v.c) |-> DumpsError(v.c[i])]
        bad == {i \in 1..Len(v.c) : errs[i] # ""}
    IN  CASE v.t = "object" -> "TypeError"
          [] v.t = "list" /\ v.a = "cyclic" -> "ValueError"
          [] bad # {} -> errs[CHOOSE i \in bad : \A k \in bad : i <= k]
          [] OTHER -> ""

\* the document json.dumps(v) produces when it raises nothing
RECURSIVE Dumps(_)
Dumps(v) ==
    CASE v.t = "NoneType" -> JNull
      [] v.t = "bool" -> JBool(IF v.a = "True" THEN "true" ELSE "false")
      [] v.t = "int" -> JNumber(v.a)
      [] v.t = "str" -> JString(v.a)
      [] v.t \in {"tuple", "list"} -> JArray([i \in 1..Len(v.c) |-> Dumps(v.c[i])])
      [] v.t = "item" -> JMember(v.a, Dumps(v.c[1]))
      [] v.t = "dict" -> JObject([i \in 1..Len(v.c) |-> Dumps(v.c[i])])

\* whether json.loads(text) raises ValueError
LoadsFails(d) == d.j = "invalid"

\* json.loads(text): arrays come back as lists, objects as dicts
RECURSIVE Loads(_)
Loads(d) ==
    CASE d.j = "null" -> PyNone
      [] d.j = "bool" -> PyBool(d.a = "true")
      [] d.j = "number" -> [t |-> "int", a |-> d.a, c |-> <<>>]
      [] d.j = "string" -> PyStr(d.a)
      [] d.j = "array" -> PyList([i \in 1..Len(d.c) |-> Loads(d.c[i])])
      [] d.j = "member" -> PyItem(d.a, Loads(d.c[1]))
      [] d.j = "object" -> PyDict([i \in 1..Len(d.c) |-> Loads(d.c[i])])

\* the keys of a dict
Keys(d) == {d.c[i].a : i \in 1..Len(d.c)}
\* d[k]
Get(d, k) == LET i == CHOOSE i \in 1..Len(d.c) : d.c[i].a = k IN d.c[i].c[1]
\* d.get(k, default)
GetOr(d, k, default) == IF k \in Keys(d) THEN Get(d, k) ELSE default
\* d after d[k] = v: the key keeps its place, a new key goes last
SetItem(d, k, v) ==
    IF k \in Keys(d)
    THEN PyDict([i \in 1..Len(d.c) |-> IF d.c[i].a = k THEN PyItem(k, v) ELSE d.c[i]])
    ELSE PyDict(Append(d.c, PyItem(k, v)))
\* d after d.update(e)
RECURSIVE Update(_, _)
Update(d, e) ==
    IF Len(e.c) = 0 THEN d
    ELSE Update(SetItem(d, e.c[1].a, e.c[1].c[1]), PyDict(Tail(e.c)))

----------------------------------------------------------------------------
(* Program constants and the inputs of one run.                             *)

\* seconds select.select() waits for stdin before giving up
READ_STDIN_INPUT_TIMEOUT == 2

\* st2common.constants.action.ACTION_OUTPUT_RESULT_DELIMITER, by name
ACTION_OUTPUT_RESULT_DELIMITER == "ACTION_OUTPUT_RESULT_DELIMITER"
\* st2common.constants.runners.PYTHON_RUNNER_INVALID_ACTION_STATUS_EXIT_CODE, by name
PYTHON_RUNNER_INVALID_ACTION_STATUS_EXIT_CODE ==
    "PYTHON_RUNNER_INVALID_ACTION_STATUS_EXIT_CODE"
INVALID_STATUS_ERROR_MESSAGE ==
    "If this is an existing action which returns a tuple with two items, ..."

\* parameter names, in the order the parent serializes them
ParamNames == <<"a", "b">>

\* the parameter mappings a parent can send: each name absent or 1 .. MaxValue
Mappings ==
    UNION {[S -> 1..MaxValue] : S \in SUBSET {ParamNames[i] : i \in 1..Len(ParamNames)}}

\* the JSON text of a parameter mapping, as the parent serializes it
JsonOfMapping(m) ==
    LET names == SelectSeq(ParamNames, LAMBDA k : k \in DOMAIN m)
    IN  JObject([i \in 1..Len(names) |-> JMember(names[i], JNumber(ToString(m[names[i]])))])

\* --parameters: not given (None), or the JSON text of a mapping
InlineArguments ==
    {[given |-> FALSE, text |-> JInvalid]}
    \cup {[given |-> TRUE, text |-> JsonOfMapping(m)] : m \in Mappings}

\* standard input: nothing arrives within the timeout, or one line does: a record
\* with a "parameters" field, a record without one, or a line that is not JSON
StdinStreams ==
    {[ready |-> FALSE, line |-> JInvalid], [ready |-> TRUE, line |-> JInvalid],
     [ready |-> TRUE, line |-> JObject(<<JMember("other", JNumber("0"))>>)]}
    \cup {[ready |-> TRUE, line |-> JObject(<<JMember("parameters", JsonOfMapping(m))>>)] :
            m \in Mappings}

\* what register_plugin(Action, file_path) does: raise, or return the action classes
LoadResults ==
    {[exc |-> "IOError", classes |-> <<>>], [exc |-> "SyntaxError", classes |-> <<>>],
     [exc |-> "", classes |-> <<>>], [exc |-> "", classes |-> <<"ActionA">>],
     [exc |-> "", classes |-> <<"ActionA", "ActionB">>]}

\* element 0 of a pair an action returns
Statuses ==
    {PyNone, PyBool(TRUE), PyBool(FALSE), PyInt(0), PyInt(1), PyInt(42), PyStr("success"),
     PyList(<<PyStr("a")>>), PyTuple(<<PyStr("a")>>), PyTuple(<<PyStr("a"), PyStr("b")>>)}

\* the data an action returns, bare or as element 1 of a pair
Results ==
    {PyNone, PyStr("data"), PyList(<<PyStr("data"), PyInt(1)>>),
     PyTuple(<<PyStr("a"), PyStr("b"), PyStr("c")>>),
     PyObject, PyList(<<PyObject>>), PyCyclicList}

\* what action.run(**parameters) returns
Outcomes == Results \cup {PyTuple(<<s, r>>) : s \in Statuses, r \in Results}

\* how the process stands: still running, or ended with an exit code and, for an
\* exception that reached the top level, its class
Running == [code |-> "", exc |-> ""]
Exited(code) == [code |-> code, exc |-> ""]
Uncaught(exc) == [code |-> "1", exc |-> exc]

\* one sys.stdout.write / sys.stderr.write
RawText(s) == [enc |-> "raw", text |-> s, doc |-> JNull]
JsonText(d) == [enc |-> "json", text |-> "", doc |-> d]
NoText == RawText("")
\* text + '\n'
WithNewline(w) == [w EXCEPT !.text = @ \o "\n"]

\* an exception leaves the current frame and reaches the top level of the script
Raise(exc) ==
    /\ pc' = "failed"
    /\ exit' = Uncaught(exc)

----------------------------------------------------------------------------
(* __main__: parameter ingestion and construction of the wrapper.           *)

\* bool(d) of a dict
Truthy(d) == Len(d.c) > 0

\* lines 276-282
InlineParameters ==
    /\ pc = "start"
    /\ parameters' =
         IF args.parameters.given
         THEN Update(PyDict(<<>>), Loads(args.parameters.text))
         ELSE PyDict(<<>>)
    /\ pc' = "inline"
    /\ UNCHANGED <<args, stdin, polls, waited, stdin_read, self_parameters, self_class_name,
                   kwargs, output, action_status, action_result, action_output,
                   print_output, stdout, stderr, exit, facade_vars>>

\* StdinParameters with the update applied the other way round: the inline
\* parameters overwrite the ones read from stdin
StdinParametersInlineWins ==
    /\ pc = "inline"
    /\ IF ~args.stdin_parameters
       THEN /\ pc' = "ingested"
            /\ UNCHANGED <<polls, waited, stdin_read, parameters, exit>>
       ELSE /\ polls' = polls + 1
            /\ waited' = IF stdin.ready THEN 0 ELSE READ_STDIN_INPUT_TIMEOUT
            /\ IF ~stdin.ready
               THEN /\ Raise("ValueError")
                    /\ UNCHANGED <<stdin_read, parameters>>
               ELSE /\ stdin_read' = TRUE
                    /\ IF LoadsFails(stdin.line)
                       THEN /\ Raise("ValueError")
                            /\ UNCHANGED parameters
                       ELSE /\ parameters' =
                                 Update(GetOr(Loads(stdin.line), "parameters", PyDict(<<>>)),
                                        parameters)
                            /\ pc' = "ingested"
                            /\ UNCHANGED exit
    /\ UNCHANGED <<args, stdin, self_parameters, self_class_name, kwargs, output,
                   action_status, action_result, action_output, print_output, stdout,
                   stderr, facade_vars>>

\* StdinParameters with the timeout swallowed: when nothing is ready the run
\* goes on with the inline parameters
StdinParametersIgnoresTimeout ==
    /\ pc = "inline"
    /\ IF ~args.stdin_parameters
       THEN /\ pc' = "ingested"
            /\ UNCHANGED <<polls, waited, stdin_read, parameters, exit>>
       ELSE /\ polls' = polls + 1
            /\ waited' = IF stdin.ready THEN 0 ELSE READ_STDIN_INPUT_TIMEOUT
            /\ IF ~stdin.ready
               THEN /\ pc' = "ingested"
                    /\ UNCHANGED <<stdin_read, parameters, exit>>
               ELSE /\ stdin_read' = TRUE
                    /\ IF LoadsFails(stdin.line)
                       THEN /\ Raise("ValueError")
                            /\ UNCHANGED parameters
                       ELSE /\ parameters' =
                                 Update(parameters,
                                        GetOr(Loads(stdin.line), "parameters", PyDict(<<>>)))
                            /\ pc' = "ingested"
                            /\ UNCHANGED exit
    /\ UNCHANGED <<args, stdin, self_parameters, self_class_name, kwargs, output,
                   action_status, action_result, action_output, print_output, stdout,
                   stderr, facade_vars>>

\* lines 284-295
StdinParameters ==
    /\ pc = "inline"
    /\ IF ~args.stdin_parameters
       THEN /\ pc' = "ingested"
            /\ UNCHANGED <<polls, waited, stdin_read, parameters, exit>>
       ELSE /\ polls' = polls + 1
            /\ waited' = IF stdin.ready THEN 0 ELSE READ_STDIN_INPUT_TIMEOUT
            /\ IF ~stdin.ready
               THEN /\ Raise("ValueError")
                    /\ UNCHANGED <<stdin_read, parameters>>
               ELSE /\ stdin_read' = TRUE
                    /\ IF LoadsFails(stdin.line)
                       THEN /\ Raise("ValueError")
                            /\ UNCHANGED parameters
                       ELSE /\ parameters' =
                                 Update(parameters,
                                        GetOr(Loads(stdin.line), "parameters", PyDict(<<>>)))
                            /\ pc' = "ingested"
                            /\ UNCHANGED exit
    /\ UNCHANGED <<args, stdin, self_parameters, self_class_name, kwargs, output,
                   action_status, action_result, action_output, print_output, stdout,
                   stderr, facade_vars>>

\* lines 300-306 and PythonActionWrapper.__init__
Construct ==
    /\ pc = "ingested"
    /\ self_parameters' = IF Truthy(parameters) THEN parameters ELSE PyDict(<<>>)
    /\ self_class_name' = "None"
    /\ pc' = "constructed"
    /\ UNCHANGED <<args, stdin, polls, waited, stdin_read, parameters, kwargs, output,
                   action_status, action_result, action_output, print_output, stdout,
                   stderr, exit, facade_vars>>

----------------------------------------------------------------------------
(* PythonActionWrapper.run() and _get_action_instance().                    *)

\* what is left alone by every step after the wrapper is constructed
main_vars == <<args, stdin, polls, waited, stdin_read, parameters, self_parameters>>

\* lines 221-247: load the classes, take the first, build the ActionService and
\* the action instance (get_action_class_instance may raise from the action's
\* own constructor)
GetActionInstance ==
    /\ pc = "constructed"
    /\ \E loaded \in LoadResults, init_raises \in BOOLEAN :
         IF loaded.exc # ""
         THEN /\ Raise(loaded.exc)
              /\ UNCHANGED <<self_class_name, facade_vars>>
         ELSE IF Len(loaded.classes) = 0
         THEN /\ Raise("Exception")
              /\ UNCHANGED <<self_class_name, facade_vars>>
         ELSE /\ self_class_name' = loaded.classes[1]
              /\ action_service' = TRUE
              /\ UNCHANGED <<datastore_service, constructed, calls, request,
                             forwarded, used>>
              /\ IF init_raises
                 THEN Raise("Exception")
                 ELSE pc' = "loaded" /\ UNCHANGED exit
    /\ UNCHANGED <<main_vars, kwargs, output, action_status, action_result,
                   action_output, print_output, stdout, stderr>>

\* line 178: action.run(**self._parameters) returns a value or raises
InvokeAction ==
    /\ pc = "loaded"
    /\ kwargs' = self_parameters
    /\ \/ \E o \in Outcomes : output' = o /\ pc' = "returned" /\ UNCHANGED exit
       \/ Raise("Exception") /\ UNCHANGED output
    /\ UNCHANGED <<main_vars, self_class_name, action_status, action_result,
                   action_output, print_output, stdout, stderr, facade_vars>>

\* Normalize with the two elements of the pair taken the wrong way round
NormalizeSwapped ==
    /\ pc = "returned"
    /\ IF IsPair(output)
       THEN action_status' = output.c[2] /\ action_result' = output.c[1]
       ELSE action_status' = PyNone /\ action_result' = output
    /\ action_output' = PyDict(<<PyItem("result", action_result'), PyItem("status", PyNone)>>)
    /\ pc' = "normalized"
    /\ UNCHANGED <<main_vars, self_class_name, kwargs, output, print_output, stdout,
                   stderr, exit, facade_vars>>

\* lines 180-192
Normalize ==
    /\ pc = "returned"
    /\ IF IsPair(output)
       THEN action_status' = output.c[1] /\ action_result' = output.c[2]
       ELSE action_status' = PyNone /\ action_result' = output
    /\ action_output' = PyDict(<<PyItem("result", action_result'), PyItem("status", PyNone)>>)
    /\ pc' = "normalized"
    /\ UNCHANGED <<main_vars, self_class_name, kwargs, output, print_output, stdout,
                   stderr, exit, facade_vars>>

\* whether fmt % (v) raises TypeError for a format with one %s: a tuple operand
\* is the argument list itself, so it must hold exactly one item
PercentRaises(v) == v.t = "tuple" /\ Len(v.c) # 1
\* the text %s is replaced by in fmt % (v)
PercentS(v) == IF v.t = "tuple" THEN Str(v.c[1]) ELSE Str(v)

\* ValidateStatus run after the opening delimiter is written instead of before
ValidateStatusAfterDelimiter ==
    /\ pc = "normalized"
    /\ stdout' = Append(stdout, RawText(ACTION_OUTPUT_RESULT_DELIMITER))
    /\ IF action_status # PyNone /\ ~IsBool(action_status)
       THEN IF PercentRaises(action_status)
            THEN Raise("TypeError") /\ UNCHANGED stderr
            ELSE /\ stderr' = stderr \o
                       <<RawText("Status returned from the action run() method must either "
                                 \o "be True or False, got: " \o PercentS(action_status)
                                 \o "\n"),
                         RawText(INVALID_STATUS_ERROR_MESSAGE)>>
                 /\ pc' = "failed"
                 /\ exit' = Exited(PYTHON_RUNNER_INVALID_ACTION_STATUS_EXIT_CODE)
       ELSE pc' = "validated" /\ UNCHANGED <<stderr, exit>>
    /\ UNCHANGED <<main_vars, self_class_name, kwargs, output, action_status,
                   action_result, action_output, print_output, facade_vars>>

\* ValidateStatus with isinstance(action_status, (bool, int)): integers pass
ValidateStatusAcceptsInt ==
    /\ pc = "normalized"
    /\ IF action_status # PyNone /\ action_status.t \notin {"bool", "int"}
       THEN IF PercentRaises(action_status)
            THEN Raise("TypeError") /\ UNCHANGED stderr
            ELSE /\ stderr' = stderr \o
                       <<RawText("Status returned from the action run() method must either "
                                 \o "be True or False, got: " \o PercentS(action_status)
                                 \o "\n"),
                         RawText(INVALID_STATUS_ERROR_MESSAGE)>>
                 /\ pc' = "failed"
                 /\ exit' = Exited(PYTHON_RUNNER_INVALID_ACTION_STATUS_EXIT_CODE)
       ELSE pc' = "validated" /\ UNCHANGED <<stderr, exit>>
    /\ UNCHANGED <<main_vars, self_class_name, kwargs, output, action_status,
                   action_result, action_output, print_output, stdout, facade_vars>>

\* lines 194-198
ValidateStatus ==
    /\ pc = "normalized"
    /\ IF action_status # PyNone /\ ~IsBool(action_status)
       THEN IF PercentRaises(action_status)
            THEN Raise("TypeError") /\ UNCHANGED stderr
            ELSE /\ stderr' = stderr \o
                       <<RawText("Status returned from the action run() method must either "
                                 \o "be True or False, got: " \o PercentS(action_status)
                                 \o "\n"),
                         RawText(INVALID_STATUS_ERROR_MESSAGE)>>
                 /\ pc' = "failed"
                 /\ exit' = Exited(PYTHON_RUNNER_INVALID_ACTION_STATUS_EXIT_CODE)
       ELSE pc' = "validated" /\ UNCHANGED <<stderr, exit>>
    /\ UNCHANGED <<main_vars, self_class_name, kwargs, output, action_status,
                   action_result, action_output, print_output, stdout, facade_vars>>

\* lines 200-208: only under a boolean status is the status recorded and a result
\* json.dumps rejects with TypeError replaced by its str(); any other exception
\* of json.dumps leaves run()
SetStatus ==
    /\ pc = "validated"
    /\ IF action_status # PyNone /\ IsBool(action_status)
       THEN LET with_status == SetItem(action_output, "status", action_status)
                err == DumpsError(Get(with_status, "result"))
            IN  CASE err = "" ->
                        /\ action_output' = with_status
                        /\ pc' = "checked" /\ UNCHANGED exit
                  [] err = "TypeError" ->
                        /\ action_output' =
                             SetItem(with_status, "result",
                                     PyStr(Str(Get(with_status, "result"))))
                        /\ pc' = "checked" /\ UNCHANGED exit
                  [] OTHER ->
                        /\ action_output' = with_status
                        /\ Raise(err)
       ELSE pc' = "checked" /\ UNCHANGED <<action_output, exit>>
    /\ UNCHANGED <<main_vars, self_class_name, kwargs, output, action_status,
                   action_result, print_output, stdout, stderr, facade_vars>>

\* lines 210-213
Encode ==
    /\ pc = "checked"
    /\ print_output' =
         IF DumpsError(action_output) = ""
         THEN JsonText(Dumps(action_output))
         ELSE RawText(Str(action_output))
    /\ pc' = "encoded"
    /\ UNCHANGED <<main_vars, self_class_name, kwargs, output, action_status,
                   action_result, action_output, stdout, stderr, exit, facade_vars>>

\* line 216
WriteDelimiter ==
    /\ pc = "encoded"
    /\ stdout' = Append(stdout, RawText(ACTION_OUTPUT_RESULT_DELIMITER))
    /\ pc' = "opened"
    /\ UNCHANGED <<main_vars, self_class_name, kwargs, output, action_status,
                   action_result, action_output, print_output, stderr, exit, facade_vars>>

\* line 217
WriteOutput ==
    /\ pc = "opened"
    /\ stdout' = Append(stdout, WithNewline(print_output))
    /\ pc' = "written"
    /\ UNCHANGED <<main_vars, self_class_name, kwargs, output, action_status,
                   action_result, action_output, print_output, stderr, exit, facade_vars>>

\* lines 218-219 and the end of the script
CloseDelimiter ==
    /\ pc = "written"
    /\ stdout' = Append(stdout, RawText(ACTION_OUTPUT_RESULT_DELIMITER))
    /\ pc' = "done"
    /\ exit' = Exited("0")
    /\ UNCHANGED <<main_vars, self_class_name, kwargs, output, action_status,
                   action_result, action_output, print_output, stderr, facade_vars>>

----------------------------------------------------------------------------
(* One run of the wrapper process.                                          *)

\* ActionService.__init__ (lines 78-80) leaves _datastore_service None
NoDatastore == [built |-> FALSE, id |-> 0, pack_name |-> "", class_name |-> "",
                log_level |-> "", auth_token |-> ""]
NoCall == [method |-> "", args |-> <<>>, ret |-> ""]

Init ==
    /\ pc = "start"
    /\ args \in [parameters : InlineArguments, stdin_parameters : BOOLEAN,
                pack : {"examples"}, log_level : {"debug"}]
    /\ stdin \in StdinStreams
    /\ polls = 0
    /\ waited = 0
    /\ stdin_read = FALSE
    /\ parameters = Unbound
    /\ self_parameters = Unbound
    /\ self_class_name = "None"
    /\ kwargs = Unbound
    /\ output = Unbound
    /\ action_status = Unbound
    /\ action_result = Unbound
    /\ action_output = Unbound
    /\ print_output = NoText
    /\ stdout = <<>>
    /\ stderr = <<>>
    /\ exit = Running
    /\ action_service = FALSE
    /\ datastore_service = NoDatastore
    /\ constructed = 0
    /\ calls = 0
    /\ request = NoCall
    /\ forwarded = NoCall
    /\ used = {}

Next ==
    \/ InlineParameters
    \/ StdinParameters
    \/ Construct
    \/ GetActionInstance
    \/ InvokeAction
    \/ Normalize
    \/ ValidateStatus
    \/ SetStatus
    \/ Encode
    \/ WriteDelimiter
    \/ WriteOutput
    \/ CloseDelimiter

Spec == Init /\ [][Next]_vars

----------------------------------------------------------------------------
(* ActionService: the calls a running action makes on its service.          *)

\* argument values of the datastore methods, as Python literals
Flags == {"True", "False"}
Scopes == {"system", "user"}
Names == {"key"}
Values == {"value"}
Ttls == {"None", "60"}
Prefixes == {"None", "prefix"}
\* ST2_ACTION_AUTH_TOKEN in os.environ: absent (None) or a token
AuthTokens == {"None", "token"}
\* what a datastore service method returns
Returns == {"None", "result"}

\* the datastore_service property without the `if not self._datastore_service`
\* test: every access builds a service
DatastoreServiceUncached(auth_token) ==
    [service |-> [built |-> TRUE, id |-> constructed + 1, pack_name |-> args.pack,
                  class_name |-> self_class_name, log_level |-> args.log_level,
                  auth_token |-> auth_token],
     constructed |-> constructed + 1]

\* lines 82-102, the datastore_service property: the service is built when
\* _datastore_service is falsy, and the field is returned
DatastoreService(auth_token) ==
    IF ~datastore_service.built
    THEN [service |-> [built |-> TRUE, id |-> constructed + 1, pack_name |-> args.pack,
                       class_name |-> self_class_name, log_level |-> args.log_level,
                       auth_token |-> auth_token],
          constructed |-> constructed + 1]
    ELSE [service |-> datastore_service, constructed |-> constructed]

\* the action instance is running and holds the service; the model follows at
\* most MaxCalls of its calls
CanCall == pc = "loaded" /\ action_service /\ calls < MaxCalls

\* one facade method: `return self.datastore_service.<method>(<passed>)`, called
\* by the action with the arguments `given`
Delegate(method, given, passed) ==
    /\ \E auth_token \in AuthTokens, ret \in Returns :
         LET got == DatastoreService(auth_token)
         IN  /\ datastore_service' = got.service
             /\ constructed' = got.constructed
             /\ used' = used \cup {got.service.id}
             /\ forwarded' = [method |-> method, args |-> passed, ret |-> ret]
             /\ request' = [method |-> method, args |-> given, ret |-> ret]
    /\ calls' = calls + 1
    /\ UNCHANGED <<harness_vars, action_service>>

\* lines 108-109
get_user_info ==
    /\ CanCall
    /\ Delegate("get_user_info", <<>>, <<>>)

\* lines 115-116
list_values ==
    /\ CanCall
    /\ \E local \in Flags, prefix \in Prefixes :
           Delegate("list_values",
                    [local |-> local, prefix |-> prefix],
                    [local |-> local, prefix |-> prefix])

\* lines 118-119
get_value ==
    /\ CanCall
    /\ \E name \in Names, local \in Flags, scope \in Scopes, decrypt \in Flags :
           Delegate("get_value",
                    [name |-> name, local |-> local, scope |-> scope, decrypt |-> decrypt],
                    [name |-> name, local |-> local, scope |-> scope, decrypt |-> decrypt])

\* lines 121-123
set_value ==
    /\ CanCall
    /\ \E name \in Names, value \in Values, ttl \in Ttls, local \in Flags,
          scope \in Scopes, encrypt \in Flags :
           Delegate("set_value",
                    [name |-> name, value |-> value, ttl |-> ttl, local |-> local,
                     scope |-> scope, encrypt |-> encrypt],
                    [name |-> name, value |-> value, ttl |-> ttl, local |-> local,
                     scope |-> scope, encrypt |-> encrypt])

\* lines 125-126: scope is accepted and not passed on
delete_value ==
    /\ CanCall
    /\ \E name \in Names, local \in Flags, scope \in Scopes :
           Delegate("delete_value",
                    [name |-> name, local |-> local, scope |-> scope],
                    [name |-> name, local |-> local])

\* a run whose action instance was just built (the state GetActionInstance
\* leaves) and is about to run
ServiceInit ==
    /\ pc = "loaded"
    /\ args = [parameters |-> [given |-> FALSE, text |-> JInvalid],
               stdin_parameters |-> FALSE, pack |-> "examples", log_level |-> "debug"]
    /\ stdin = [ready |-> FALSE, line |-> JInvalid]
    /\ polls = 0
    /\ waited = 0
    /\ stdin_read = FALSE
    /\ parameters = PyDict(<<>>)
    /\ self_parameters = PyDict(<<>>)
    /\ self_class_name \in {"ActionA"}
    /\ kwargs = Unbound
    /\ output = Unbound
    /\ action_status = Unbound
    /\ action_result = Unbound
    /\ action_output = Unbound
    /\ print_output = NoText
    /\ stdout = <<>>
    /\ stderr = <<>>
    /\ exit = Running
    /\ action_service = TRUE
    /\ datastore_service = NoDatastore
    /\ constructed = 0
    /\ calls = 0
    /\ request = NoCall
    /\ forwarded = NoCall
    /\ used = {}

ServiceNext ==
    \/ get_user_info
    \/ list_values
    \/ get_value
    \/ set_value
    \/ delete_value

ServiceSpec == ServiceInit /\ [][ServiceNext]_vars

----------------------------------------------------------------------------
(* What the parent process sees of a run.                                   *)

\* the framed envelope: delimiter, payload and newline, delimiter
Frame ==
    <<RawText(ACTION_OUTPUT_RESULT_DELIMITER), WithNewline(print_output),
      RawText(ACTION_OUTPUT_RESULT_DELIMITER)>>

\* the wrapper wrote a delimiter to stdout
DelimiterWritten ==
    \E i \in 1..Len(stdout) : stdout[i] = RawText(ACTION_OUTPUT_RESULT_DELIMITER)

\* the run ended by writing the closing delimiter
Emitted == pc = "done"

\* the payload between the two delimiters decodes as JSON
PayloadIsJson == stdout[2].enc = "json" /\ ~LoadsFails(stdout[2].doc)

\* the envelope of an emitted payload: the decoded JSON document, or, for a
\* payload that is str(action_output), the dict the text was made from
EmittedEnvelope == IF PayloadIsJson THEN Loads(stdout[2].doc) ELSE action_output

\* run() has got past the status check of lines 194-198
StatusChecked == output # Unbound /\ pc \notin {"returned", "normalized"}

\* the mapping --parameters carries, empty when the argument is absent
InlineMapping ==
    IF args.parameters.given THEN Loads(args.parameters.text) ELSE PyDict(<<>>)

\* the mapping of the stdin record's parameters field, empty when it has none
StdinMapping ==
    IF stdin.ready /\ ~LoadsFails(stdin.line) /\ "parameters" \in Keys(Loads(stdin.line))
    THEN Get(Loads(stdin.line), "parameters")
    ELSE PyDict(<<>>)

\* m is mapping `base` overlaid by mapping `over`
IsOverlay(m, base, over) ==
    /\ m.t = "dict"
    /\ Keys(m) = Keys(base) \cup Keys(over)
    /\ Len(m.c) = Cardinality(Keys(m))
    /\ \A k \in Keys(m) :
         Get(m, k) = IF k \in Keys(over) THEN Get(over, k) ELSE Get(base, k)

----------------------------------------------------------------------------
(* The claims.                                                              *)

\* C1: a run ends either with exactly the framed envelope on stdout (delimiter,
\* payload and newline, delimiter), written once, as the last thing the wrapper
\* does, and exit code 0; or with a failure (a non-zero exit code) and no
\* delimiter written.  No failure precedes or follows a write to stdout.
C1_FrameOrFailure ==
    /\ (pc = "done") => (stdout = Frame /\ exit = Exited("0"))
    /\ (pc = "failed") => (~DelimiterWritten /\ exit.code \notin {"", "0"})
    /\ (exit # Running) <=> (pc \in {"done", "failed"})
    /\ DelimiterWritten =>
         /\ pc \in {"opened", "written", "done"}
         /\ Len(stdout) <= Len(Frame)
         /\ \A i \in 1..Len(stdout) : stdout[i] = Frame[i]

\* C1 witness: a run that failed in status validation, with nothing framed
C1_Witness ==
    /\ pc = "failed"
    /\ exit = Exited(PYTHON_RUNNER_INVALID_ACTION_STATUS_EXIT_CODE)
    /\ output # Unbound
    /\ ~DelimiterWritten

\* C2: whenever the action returned a pair whose element 0 is neither None nor a
\* boolean, run() wrote the diagnostic to stderr and ended the process with the
\* invalid-status exit code, and wrote nothing to stdout.
C2_InvalidStatusExits ==
    (StatusChecked /\ IsPair(output) /\ output.c[1] # PyNone /\ ~IsBool(output.c[1]))
        => /\ pc = "failed"
           /\ exit = Exited(PYTHON_RUNNER_INVALID_ACTION_STATUS_EXIT_CODE)
           /\ Len(stderr) > 0
           /\ stdout = <<>>

\* C3: the payload of every emitted frame decodes as JSON to a mapping with
\* exactly the keys status and result.
C3_PayloadDecodes ==
    Emitted => /\ PayloadIsJson
               /\ Loads(stdout[2].doc).t = "dict"
               /\ Keys(Loads(stdout[2].doc)) = {"status", "result"}

\* C4: when the result the action returned (element 1 of a pair, or the bare
\* value) is of a type json.dumps rejects, the emitted envelope's result is the
\* str() of that value and its status is the status returned (None for a bare
\* value).
C4_NonEncodableResultIsText ==
    LET returned == IF IsPair(output) THEN output.c[2] ELSE output
        status == IF IsPair(output) THEN output.c[1] ELSE PyNone
    IN  (Emitted /\ DumpsError(returned) = "TypeError")
            => /\ Get(EmittedEnvelope, "result") = PyStr(Str(returned))
               /\ Get(EmittedEnvelope, "status") = status

\* C5 as stated: in every emitted envelope the status is null only for a bare
\* value, and boolean for every pair.
C5_PairStatusIsBoolean ==
    Emitted => /\ (Get(EmittedEnvelope, "status") = PyNone) => ~IsPair(output)
               /\ IsPair(output) => IsBool(Get(EmittedEnvelope, "status"))

\* C5 amended: in every emitted envelope the status is null exactly when the
\* action returned a bare value or a pair whose element 0 is None; for a pair
\* with any other element 0 the status is that element, a boolean.
C5_NullStatusOnlyWithoutStatus ==
    Emitted =>
        LET status == Get(EmittedEnvelope, "status")
        IN  /\ (status = PyNone) <=> (~IsPair(output) \/ output.c[1] = PyNone)
            /\ (IsPair(output) /\ output.c[1] # PyNone)
                   => (IsBool(status) /\ status = output.c[1])

\* C5 witness: an envelope with null status emitted for a pair (None, data)
C5_Witness ==
    /\ Emitted
    /\ IsPair(output)
    /\ output.c[1] = PyNone
    /\ Get(EmittedEnvelope, "status") = PyNone

\* C6: for a pair (b, X) with b boolean and X encodable the emitted payload is
\* the JSON object {status: b, result: X}; for a bare encodable X it is
\* {status: null, result: X}.
C6_EncodableEnvelope ==
    LET members == {stdout[2].doc.c[i] : i \in 1..Len(stdout[2].doc.c)}
        expected(status, result) ==
            /\ stdout[2].enc = "json"
            /\ stdout[2].doc.j = "object"
            /\ Len(stdout[2].doc.c) = 2
            /\ members = {JMember("status", Dumps(status)), JMember("result", Dumps(result))}
    IN  /\ (Emitted /\ IsPair(output) /\ IsBool(output.c[1]) /\ DumpsError(output.c[2]) = "")
            => expected(output.c[1], output.c[2])
        /\ (Emitted /\ ~IsPair(output) /\ DumpsError(output) = "")
            => expected(PyNone, output)

\* C6 witness: the envelope of a pair (True, <encodable list>) was emitted
C6_Witness ==
    /\ Emitted
    /\ IsPair(output)
    /\ output.c[1] = PyBool(TRUE)
    /\ output.c[2] = PyList(<<PyStr("data"), PyInt(1)>>)

\* C7: the keyword arguments of action.run() are the inline mapping overlaid by
\* the stdin record's parameters mapping; without --stdin-parameters stdin is
\* neither polled nor read and the arguments are the inline mapping.
C7_ParametersAreOverlay ==
    /\ ~args.stdin_parameters => (polls = 0 /\ ~stdin_read)
    /\ (kwargs # Unbound) =>
         IF args.stdin_parameters
         THEN IsOverlay(kwargs, InlineMapping, StdinMapping)
         ELSE IsOverlay(kwargs, InlineMapping, PyDict(<<>>))

\* C7 witness: the action ran with a key that both sources give, with
\* different values, and a key that only the inline mapping gives
C7_Witness ==
    /\ kwargs # Unbound
    /\ args.stdin_parameters
    /\ \E k \in Keys(InlineMapping) \cap Keys(StdinMapping) :
         Get(InlineMapping, k) # Get(StdinMapping, k)
    /\ Keys(InlineMapping) \ Keys(StdinMapping) # {}

\* C8: with --stdin-parameters and nothing ready on stdin within the timeout,
\* the process fails with the timeout error after one poll of
\* READ_STDIN_INPUT_TIMEOUT seconds: stdin is not read, no action is loaded or
\* invoked, and nothing is written to stdout.
C8_StdinTimeoutIsFatal ==
    (args.stdin_parameters /\ ~stdin.ready /\ pc \notin {"start", "inline"})
        => /\ pc = "failed"
           /\ exit = Uncaught("ValueError")
           /\ polls = 1
           /\ waited = READ_STDIN_INPUT_TIMEOUT
           /\ ~stdin_read
           /\ self_class_name = "None"
           /\ ~action_service
           /\ kwargs = Unbound /\ output = Unbound
           /\ stdout = <<>>

\* C8 witness: a run that timed out waiting for stdin
C8_Witness ==
    /\ args.stdin_parameters
    /\ ~stdin.ready
    /\ polls = 1
    /\ pc = "failed"

\* C9: over any sequence of facade calls the datastore service is constructed
\* at most once: not before the first call, exactly once from the first call
\* on, and every call goes to that one instance.
C9_DatastoreServiceBuiltOnce ==
    /\ constructed <= 1
    /\ (calls = 0) => (constructed = 0 /\ ~datastore_service.built /\ used = {})
    /\ (calls > 0) => (constructed = 1 /\ datastore_service.built /\ used = {1}
                       /\ datastore_service.id = 1)

\* C9 witness: a second call reused the instance the first call built
C9_Witness ==
    /\ calls >= 2
    /\ constructed = 1
    /\ used = {1}

\* C10: the datastore service receives the method and exactly the argument
\* values the action gave the facade, and the facade returns its result.
C10_ArgumentsForwarded ==
    (calls > 0) => /\ forwarded.method = request.method
                   /\ forwarded.args = request.args
                   /\ forwarded.ret = request.ret

====
